---- MODULE Spec2Model ----
(***************************************************************************)
(* A model of the job scraper: the command line program (cli.py), the      *)
(* adapter registry (job_scraper/__init__.py), the two working adapters    *)
(* (TheMuseScraper, RemotiveScraper) and the two stub adapters.            *)
(*                                                                         *)
(* Text is modelled as a sequence of one-character strings, so that        *)
(* str.lower(), str.strip(), the substring test and os.path.splitext are   *)
(* computed character by character as the library computes them.           *)
(* Time is counted in units of 1/UnitsPerDay of a day.                     *)
(***************************************************************************)
EXTENDS Integers, Sequences, FiniteSets, TLC

(***************************************************************************)
(* Bounds of the model.                                                    *)
(***************************************************************************)
MaxPages == 2        \* largest page_count the site reports
PageSize == 2        \* most items in one response
MaxResults == 3      \* largest --max-results
MaxDays == 1         \* largest --days
MaxTicks == 1        \* how far the wall clock may advance during a run
UnitsPerDay == 2     \* resolution of the clock

\* Python's None and an optional value: <<>> is None, <<x>> is the value x
None == <<>>
Some(x) == <<x>>
Now0 == 2 * UnitsPerDay      \* the wall clock when the run starts

(***************************************************************************)
(* Text.                                                                   *)
(***************************************************************************)
UpperToLower ==
  [A |-> "a", B |-> "b", C |-> "c", D |-> "d", E |-> "e", F |-> "f", G |-> "g",
   H |-> "h", I |-> "i", J |-> "j", K |-> "k", L |-> "l", M |-> "m", N |-> "n",
   O |-> "o", P |-> "p", Q |-> "q", R |-> "r", S |-> "s", T |-> "t", U |-> "u",
   V |-> "v", W |-> "w", X |-> "x", Y |-> "y", Z |-> "z"]

\* str.lower(), one character
LowerChar(c) == IF c \in DOMAIN UpperToLower THEN UpperToLower[c] ELSE c

\* str.lower()
Lower(s) == [i \in 1..Len(s) |-> LowerChar(s[i])]

\* the characters str.strip() removes
Whitespace == {" "}

\* str.lstrip()
RECURSIVE LStrip(_)
LStrip(s) == IF s # <<>> /\ Head(s) \in Whitespace THEN LStrip(Tail(s)) ELSE s

\* str.rstrip()
RECURSIVE RStrip(_)
RStrip(s) ==
  IF s # <<>> /\ s[Len(s)] \in Whitespace THEN RStrip(SubSeq(s, 1, Len(s) - 1)) ELSE s

\* str.strip()
Strip(s) == RStrip(LStrip(s))

\* Python's  sub in s  on text
Contains(s, sub) ==
  \E i \in 1..(Len(s) - Len(sub) + 1) : SubSeq(s, i, i + Len(sub) - 1) = sub

\* Python's truth value of an optional text: None and "" are false
Truthy(s) == s # None /\ s[1] # <<>>

\* the index of the last occurrence of character c in s (str.rfind, 0 when absent)
RFind(s, c) ==
  LET at == {i \in 1..Len(s) : s[i] = c}
  IN  IF at = {} THEN 0 ELSE CHOOSE i \in at : \A j \in at : j <= i

\* os.path.splitext(path)[1]: the text from the last dot of the last path
\* component, unless that component has only dots before it
SplitExt(p) ==
  LET sepIndex == RFind(p, "/")
      dotIndex == RFind(p, ".")
  IN  IF dotIndex > sepIndex
         /\ \E k \in (sepIndex + 1)..(dotIndex - 1) : p[k] # "."
      THEN SubSeq(p, dotIndex, Len(p))
      ELSE <<>>

(***************************************************************************)
(* The texts the model uses.                                               *)
(***************************************************************************)
T_themuse == <<"t", "h", "e", "m", "u", "s", "e">>
T_indeed == <<"i", "n", "d", "e", "e", "d">>
T_linkedin == <<"l", "i", "n", "k", "e", "d", "i", "n">>
T_remotive == <<"r", "e", "m", "o", "t", "i", "v", "e">>
T_TheMuse == <<"T", "h", "e", "M", "u", "s", "e">>
T_INDEED == <<"I", "N", "D", "E", "E", "D">>
T_glassdoor == <<"g", "l", "a", "s", "s", "d", "o", "o", "r">>

T_remote == <<"r", "e", "m", "o", "t", "e">>
T_flexible == <<"f", "l", "e", "x", "i", "b", "l", "e">>
T_Remote == <<"R", "e", "m", "o", "t", "e">>
T_Flexible == <<"F", "l", "e", "x", "i", "b", "l", "e">>
T_NY == <<"N", "Y">>
T_NY_sp == <<"N", "Y", " ">>
T_LA == <<"L", "A">>
T_ny == <<"n", "y">>
T_y_sp == <<"y", " ">>
T_Bos == <<"B", "o", "s">>

T_json == <<".", "j", "s", "o", "n">>
T_csv == <<".", "c", "s", "v">>
P_out_txt == <<"o", ".", "t", "x", "t">>
P_a_JSON == <<"a", ".", "J", "S", "O", "N">>
P_a_csv == <<"a", ".", "c", "s", "v">>
P_dot_json == <<".", "j", "s", "o", "n">>
P_dir_a == <<"d", ".", "c", "s", "v", "/", "a">>

(***************************************************************************)
(* The adapter registry: a dict in insertion order.                        *)
(***************************************************************************)
SCRAPERS ==
  << <<T_themuse, "TheMuseScraper">>, <<T_indeed, "IndeedScraper">>,
     <<T_linkedin, "LinkedInScraper">>, <<T_remotive, "RemotiveScraper">> >>

\* SCRAPERS.keys(), in order
ScraperKeys == [i \in 1..Len(SCRAPERS) |-> SCRAPERS[i][1]]

\* key in SCRAPERS
IsRegistered(key) == \E i \in 1..Len(SCRAPERS) : SCRAPERS[i][1] = key

\* SCRAPERS[key]
ScraperClass(key) == SCRAPERS[CHOOSE i \in 1..Len(SCRAPERS) : SCRAPERS[i][1] = key][2]

\* get_scraper as it would be without the lower-casing of site_name
GetScraper_CaseSensitive(site_name) ==
  IF ~IsRegistered(site_name)
  THEN [raised |-> Some([type |-> "KeyError", unknown |-> site_name,
                         available |-> ScraperKeys]),
        value |-> None]
  ELSE [raised |-> None, value |-> Some(ScraperClass(site_name))]

\* get_scraper(site_name): the adapter it returns, or the KeyError it raises
GetScraper(site_name) ==
  LET site == Lower(site_name)
  IN  IF ~IsRegistered(site)
      THEN [raised |-> Some([type |-> "KeyError", unknown |-> site_name,
                                 available |-> ScraperKeys]),
            value |-> None]
      ELSE [raised |-> None, value |-> Some(ScraperClass(site))]

\* the messages of the two stub adapters
IndeedMessage == "Indeed scraping is not implemented."
LinkedInMessage == "LinkedIn scraping is not implemented."

(***************************************************************************)
(* The inputs: command line arguments and what the two sites serve.        *)
(***************************************************************************)
\* --site as typed, and the names a caller hands to get_scraper
SiteArgs == {T_themuse, T_indeed, T_linkedin, T_remotive, T_TheMuse, T_INDEED, T_glassdoor}
\* --location
LocationArgs == {None, Some(T_ny), Some(T_y_sp), Some(T_Bos)}
\* --days
DaysArgs == 0..MaxDays
\* --max-results
MaxResultsArgs == 0..MaxResults
\* --output
Paths == {P_out_txt, P_a_JSON, P_a_csv, P_dot_json, P_dir_a}
OutputArgs == {None} \cup {Some(p) : p \in Paths}

\* publication timestamps: an ISO-8601 text is modelled by the wall time it
\* spells and its UTC offset; Bad is a missing or unparseable text
Bad == [ok |-> FALSE, wall |-> 0, offset |-> 0]
OldDate == Now0 - UnitsPerDay - 1
EdgeDate == Now0 - UnitsPerDay + 1
Stamp(w, o) == [ok |-> TRUE, wall |-> w, offset |-> o]

\* items of The Muse: publication_date and the names of locations
MuseItems ==
  { [publication_date |-> Bad, locations |-> <<T_NY>>],
    [publication_date |-> Stamp(OldDate, 0), locations |-> <<T_Flexible>>],
    [publication_date |-> Stamp(EdgeDate, 1), locations |-> <<T_Remote>>],
    [publication_date |-> Stamp(Now0, 0), locations |-> <<T_LA, T_NY>>],
    [publication_date |-> Stamp(Now0, 0), locations |-> <<>>],
    [publication_date |-> Stamp(EdgeDate, 0), locations |-> <<T_LA>>] }

\* items of Remotive: publication_date and candidate_required_location
RemotiveItems ==
  { [publication_date |-> Bad, candidate_required_location |-> T_NY],
    [publication_date |-> Stamp(OldDate, 0), candidate_required_location |-> T_NY],
    [publication_date |-> Stamp(EdgeDate, 1), candidate_required_location |-> T_NY_sp],
    [publication_date |-> Stamp(Now0, 0), candidate_required_location |-> T_Remote],
    [publication_date |-> Stamp(Now0, 0), candidate_required_location |-> <<>>] }

\* the page_count field of a response of The Muse
\* (absent, a text that is no number, or a number)
Absent == [kind |-> "absent", value |-> 0]
NaN == [kind |-> "text", value |-> 0]
Num(n) == [kind |-> "int", value |-> n]
PageCountFields == {Absent, NaN} \cup {Num(n) : n \in 0..MaxPages}

\* what requests.get gives: a transport error raised, or a response with a status
TransportError == [raised |-> TRUE, status_code |-> 0]
Response(code) == [raised |-> FALSE, status_code |-> code]
FailureStatuses == {204, 500}

\* the readings the wall clock can give
Clock == Now0..(Now0 + MaxTicks)

\* a destination path before the run: absent, or holding earlier content
NoFile == [kind |-> "none", format |-> "", rows |-> <<>>]
OldContent == [kind |-> "old", format |-> "", rows |-> <<>>]

\* a raised exception
Error(type, message, unknown, available) ==
  [type |-> type, message |-> message, unknown |-> unknown, available |-> available]

\* the HTTP requests: the endpoint and the page parameter (0: none is sent)
MuseGet(p) == [endpoint |-> "themuse", page |-> p]
RemotiveGet == [endpoint |-> "remotive", page |-> 0]

\* the destination paths before the run: two hold earlier content
Files0 == [p \in Paths |-> IF p \in {P_out_txt, P_a_csv} THEN OldContent ELSE NoFile]

(***************************************************************************)
(* The pure parts of the adapters and of the command line program.         *)
(* A JobPosting is modelled by its publication_date and its location; the  *)
(* other four fields are text copied from the item that nothing reads.     *)
(***************************************************************************)
\* the parser as it would be if it fell back on a default date instead of raising
IsoParseNaive_Lenient(v) == [raised |-> FALSE, value |-> v.wall]

\* dateutil.parser.isoparse(text).replace(tzinfo=None): the wall time, the
\* offset dropped; raises on a missing or malformed text
IsoParseNaive(v) == [raised |-> ~v.ok, value |-> v.wall]

\* timedelta.days of  utcnow - date, utcnow reading t
DeltaDays(t, date) == (t - date) \div UnitsPerDay

\* _within_days as it would be with <= for <
WithinDays_Inclusive(date, d, t) ==
  IF d = None THEN TRUE ELSE DeltaDays(t, date) <= d[1]

\* BaseScraper._within_days, with utcnow() reading t
WithinDays(date, d, t) == IF d = None THEN TRUE ELSE DeltaDays(t, date) < d[1]

\* remote_keywords of TheMuseScraper.search
RemoteKeywords == <<T_remote, T_flexible>>

\* the location filter as it would be without the remote keywords
MuseLocationMatch_NoRemote(loc, item) ==
  \E i \in 1..Len(item.locations) :
    Contains(Lower(item.locations[i]), Lower(loc[1]))

\* the location filter of TheMuseScraper.search (the value of match)
MuseLocationMatch(loc, item) ==
  LET loc_names == item.locations
      match == \E i \in 1..Len(loc_names) :
                 Contains(Lower(loc_names[i]), Lower(loc[1]))
  IN  IF ~match
      THEN \E i \in 1..Len(loc_names) :
             \E k \in 1..Len(RemoteKeywords) :
               Contains(Lower(loc_names[i]), RemoteKeywords[k])
      ELSE match

\* the JobPosting TheMuseScraper.search builds
MusePosting(item, pub_date) ==
  [publication_date |-> pub_date,
   location |-> IF item.locations # <<>> THEN item.locations[1] ELSE <<>>]

\* does TheMuseScraper.search keep the item, utcnow() reading t
MuseKeeps(item, loc, d, t) ==
  LET parsed == IsoParseNaive(item.publication_date)
  IN  /\ ~parsed.raised
      /\ WithinDays(parsed.value, d, t)
      /\ Truthy(loc) => MuseLocationMatch(loc, item)

\* int(data.get("page_count", 0)), 0 when int() raises
ParsePageCount(field) == IF field.kind = "int" THEN field.value ELSE 0

\* job_location of RemotiveScraper.search
RemotiveJobLocation(item) == Strip(item.candidate_required_location)

\* the location filter of RemotiveScraper.search
RemotiveLocationMatch(loc, job_location) ==
  Contains(Lower(job_location), Lower(loc[1]))

\* the JobPosting RemotiveScraper.search builds
RemotivePosting(item, pub_date) ==
  [publication_date |-> pub_date, location |-> RemotiveJobLocation(item)]

\* does RemotiveScraper.search keep the item, utcnow() reading t
RemotiveKeeps(item, loc, d, t) ==
  LET parsed == IsoParseNaive(item.publication_date)
  IN  /\ ~parsed.raised
      /\ WithinDays(parsed.value, d, t)
      /\ Truthy(loc) => RemotiveLocationMatch(loc, RemotiveJobLocation(item))

\* has the cap been reached: max_results is not None and n >= max_results
CapReached(m, n) == m # None /\ n >= m[1]

(***************************************************************************)
(* The same search on the same responses with the items whose publication  *)
(* timestamp is missing or unparseable taken out, for comparison: results  *)
(* is its list, returned whether it has reached a return, seen whether the *)
(* page at hand has an item left after the removal, emptied its list at    *)
(* the first page of The Muse the removal left without items.              *)
(***************************************************************************)
\* on entry: results = []
CleanStart == [results |-> <<>>, returned |-> FALSE, seen |-> FALSE, emptied |-> None]

\* one turn of the for loop on item: an item taken out is never visited; any
\* other is appended when the filters keep it, and the cap is tested
CleanItem(c, item, keeps, posting, m) ==
  IF ~item.publication_date.ok \/ c.returned
  THEN c
  ELSE LET r == IF keeps THEN Append(c.results, posting) ELSE c.results
       IN  [c EXCEPT !.results = r, !.returned = keeps /\ CapReached(m, Len(r))]

\* jobs of the page, after the removal, holds item
CleanSeen(c, item) ==
  IF item.publication_date.ok /\ ~c.returned /\ c.emptied = None
  THEN [c EXCEPT !.seen = TRUE]
  ELSE c

\* if not jobs: break, for the page after the removal
CleanPageEnd(c) ==
  [c EXCEPT !.seen = FALSE,
            !.emptied = IF c.emptied = None /\ ~c.seen /\ ~c.returned
                        THEN Some(c.results) ELSE @]

\* return results
CleanReturn(c) == [c EXCEPT !.returned = TRUE, !.seen = FALSE]

\* the insertion as it would be without reverse=True
RECURSIVE InsertDesc_Ascending(_, _)
InsertDesc_Ascending(x, s) ==
  IF s = <<>> THEN <<x>>
  ELSE IF Head(s).publication_date <= x.publication_date
       THEN <<Head(s)>> \o InsertDesc_Ascending(x, Tail(s))
       ELSE <<x>> \o s

\* list.sort(key=publication_date, reverse=True): a stable sort, larger first
RECURSIVE InsertDesc(_, _)
InsertDesc(x, s) ==
  IF s = <<>> THEN <<x>>
  ELSE IF Head(s).publication_date >= x.publication_date
       THEN <<Head(s)>> \o InsertDesc(x, Tail(s))
       ELSE <<x>> \o s

RECURSIVE SortDesc(_)
SortDesc(s) ==
  IF s = <<>> THEN <<>>
  ELSE InsertDesc(s[Len(s)], SortDesc(SubSeq(s, 1, Len(s) - 1)))

\* JobPosting.to_dict: publication_date as isoformat() of a naive datetime
ToDict(j) ==
  [publication_date |-> [wall |-> j.publication_date, naive |-> TRUE],
   location |-> j.location]

\* the rows format_console prints: the date as strftime("%Y-%m-%d")
ConsoleRow(j) ==
  [location |-> j.location, posted |-> j.publication_date \div UnitsPerDay]

\* the extension write_output dispatches on
OutputExt(path) == Lower(SplitExt(path))

(***************************************************************************)
(* The state.                                                              *)
(***************************************************************************)
VARIABLES
  pc,           \* where the run is
  argv_site,    \* --site as typed (main), or site_name (a call of get_scraper)
  scraper,      \* the adapter get_scraper returned
  raised,       \* the exception in flight, or the one that ended the run
  location,     \* search(): location
  days,         \* search(): days
  max_results,  \* search(): max_results
  results,      \* search(): results
  page,         \* TheMuseScraper.search: page
  fetched,      \* TheMuseScraper.search: fetched
  total_pages,  \* TheMuseScraper.search: total_pages
  response,     \* search(): what requests.get gave last
  data,         \* TheMuseScraper.search: the page_count field of data
  remaining,    \* search(): items of jobs the for loop has not yet visited
  job,          \* search(): the item the for loop visited last
  now,          \* the last reading of the wall clock
  requests,     \* every HTTP request issued, in order
  ret,          \* what search() returned
  clean,        \* the same search on the responses without their malformed items
  jobs,         \* main: jobs
  output,       \* main: args.output
  files,        \* the file system at the destination paths
  stdout,       \* what was printed
  stderr,       \* what was printed to the error stream
  exit          \* the exit status of the process

vars ==
  <<pc, argv_site, scraper, raised, location, days, max_results, results, page,
    fetched, total_pages, response, data, remaining, job, now, requests, ret,
    clean, jobs, output, files, stdout, stderr, exit>>

argVars == <<argv_site, location, days, max_results>>
museVars == <<page, fetched, total_pages, data>>
loopVars == <<remaining, job>>
sinkVars == <<jobs, output, files, stdout>>
endVars == <<stderr, exit>>

Init ==
  /\ pc \in {"main", "get_scraper"}
  /\ argv_site \in SiteArgs
  /\ scraper = None
  /\ raised = None
  /\ location = None
  /\ days = None
  /\ max_results = None
  /\ results = <<>>
  /\ page = 0
  /\ fetched = 0
  /\ total_pages = None
  /\ response = None
  /\ data = Absent
  /\ remaining = 0
  /\ job = None
  /\ now = Now0
  /\ requests = <<>>
  /\ ret = None
  /\ clean = CleanStart
  /\ jobs = <<>>
  /\ output = None
  /\ files = Files0
  /\ stdout = <<>>
  /\ stderr = <<>>
  /\ exit = None

(***************************************************************************)
(* get_scraper called by a user of the package.                            *)
(***************************************************************************)
GetScraperCall ==
  /\ pc = "get_scraper"
  /\ LET r == GetScraper(argv_site)
     IN  /\ raised' = r.raised
         /\ scraper' = r.value
  /\ pc' = "resolved"
  /\ UNCHANGED <<argVars, results, museVars, response, loopVars, now, requests,
                 ret, sinkVars, endVars>>

(***************************************************************************)
(* main, up to the call of search.                                         *)
(***************************************************************************)
\* parse_args: argparse rejects a --site that is not one of the choices
ParseArgsError ==
  /\ pc = "main"
  /\ ~IsRegistered(argv_site)
  /\ stderr' = Append(stderr, "usage: invalid choice")
  /\ exit' = Some(2)
  /\ pc' = "exit"
  /\ UNCHANGED <<argVars, scraper, raised, results, museVars, response, loopVars,
                 now, requests, ret, sinkVars>>

\* parse_args accepts; site is lower-cased, the adapter resolved, days normalised.
\* loc, d and m are args.location, args.days and args.max_results, drawn here,
\* where main first reads them
MainResolve(loc, d, m) ==
  /\ pc = "main"
  /\ IsRegistered(argv_site)
  /\ LET r == GetScraper(Lower(argv_site))
     IN  IF r.raised # None
         THEN /\ raised' = r.raised
              /\ stderr' = Append(stderr, "Traceback")
              /\ exit' = Some(1)
              /\ pc' = "exit"
              /\ UNCHANGED <<scraper, location, days, max_results>>
         ELSE /\ scraper' = r.value
              /\ location' = loc
              /\ days' = IF d > 0 THEN Some(d) ELSE None
              /\ max_results' = Some(m)
              /\ pc' = "search"
              /\ UNCHANGED <<raised, stderr, exit>>
  /\ UNCHANGED <<argv_site, results, museVars, response, loopVars, now, requests,
                 ret, sinkVars>>

(***************************************************************************)
(* The stub adapters, and main's handler of what they raise.               *)
(***************************************************************************)
\* the stub as it would be if it tried the site before giving up
IndeedSearch_Fetches ==
  /\ pc = "search"
  /\ scraper = Some("IndeedScraper")
  /\ requests' = Append(requests, [endpoint |-> "indeed", page |-> 0])
  /\ raised' = Some(Error("NotImplementedError", IndeedMessage, <<>>, <<>>))
  /\ pc' = "except"
  /\ UNCHANGED <<argVars, scraper, results, museVars, response, loopVars, now,
                 ret, sinkVars, endVars>>

IndeedSearch ==
  /\ pc = "search"
  /\ scraper = Some("IndeedScraper")
  /\ raised' = Some(Error("NotImplementedError", IndeedMessage, <<>>, <<>>))
  /\ pc' = "except"
  /\ UNCHANGED <<argVars, scraper, results, museVars, response, loopVars, now,
                 requests, ret, sinkVars, endVars>>

LinkedInSearch ==
  /\ pc = "search"
  /\ scraper = Some("LinkedInScraper")
  /\ raised' = Some(Error("NotImplementedError", LinkedInMessage, <<>>, <<>>))
  /\ pc' = "except"
  /\ UNCHANGED <<argVars, scraper, results, museVars, response, loopVars, now,
                 requests, ret, sinkVars, endVars>>

\* except NotImplementedError: the message to the error stream, sys.exit(1)
MainExcept ==
  /\ pc = "except"
  /\ stderr' = Append(stderr, raised[1].message)
  /\ exit' = Some(1)
  /\ pc' = "exit"
  /\ UNCHANGED <<argVars, scraper, raised, results, museVars, response, loopVars,
                 now, requests, ret, sinkVars>>

(***************************************************************************)
(* search reaches a return statement.                                      *)
(***************************************************************************)
Return(value) ==
  /\ ret' = Some(value)
  /\ pc' = "returned"

(***************************************************************************)
(* TheMuseScraper.search.                                                  *)
(***************************************************************************)
MuseStart ==
  /\ pc = "search"
  /\ scraper = Some("TheMuseScraper")
  /\ results' = <<>>
  /\ page' = 1
  /\ fetched' = 0
  /\ total_pages' = None
  /\ pc' = "muse_loop"
  /\ UNCHANGED <<argVars, scraper, raised, response, data, loopVars, now, requests,
                 ret, sinkVars, endVars>>

\* the test at the head of the while loop
MusePastLastPage(tp, p) == tp # None /\ p > tp[1]

\* the break as it would be if it dropped what was collected
MuseBreak_Empty(res) == <<>>

\* what search returns when it breaks out of the while loop
MuseBreak(res) == res

\* the page count is known and exceeded: break
MuseLoopExit ==
  /\ pc = "muse_loop"
  /\ MusePastLastPage(total_pages, page)
  /\ Return(MuseBreak(results))
  /\ UNCHANGED <<argVars, scraper, raised, results, museVars, response, loopVars,
                 now, requests, sinkVars, endVars>>

\* the request raises or answers with a status other than 200: log and break
MuseRequestFails(resp) ==
  /\ pc = "muse_loop"
  /\ ~MusePastLastPage(total_pages, page)
  /\ page <= MaxPages + 1
  /\ requests' = Append(requests, MuseGet(page))
  /\ response' = Some(resp)
  /\ Return(MuseBreak(results))
  /\ UNCHANGED <<argVars, scraper, raised, results, museVars, loopVars, now,
                 sinkVars, endVars>>

\* the request answers 200 with n items and a page_count field; no item: break
MuseRequestOk(field, n) ==
  /\ pc = "muse_loop"
  /\ ~MusePastLastPage(total_pages, page)
  /\ page <= MaxPages + 1
  /\ requests' = Append(requests, MuseGet(page))
  /\ response' = Some(Response(200))
  /\ data' = field
  /\ remaining' = n
  /\ IF n = 0
     THEN Return(MuseBreak(results))
     ELSE /\ pc' = "muse_items"
          /\ UNCHANGED ret
  /\ UNCHANGED <<argVars, scraper, raised, results, page, fetched, total_pages, job,
                 now, sinkVars, endVars>>

\* one turn of the for loop: the next item of the page is item, and utcnow(),
\* when _within_days calls it, reads t
MuseItem(item, t) ==
  /\ pc = "muse_items"
  /\ remaining > 0
  /\ t >= now
  /\ (~item.publication_date.ok \/ days = None) => t = now
  /\ now' = t
  /\ job' = Some(item)
  /\ remaining' = remaining - 1
  /\ IF MuseKeeps(item, location, days, t)
     THEN /\ results' = Append(results, MusePosting(item, IsoParseNaive(item.publication_date).value))
          /\ fetched' = fetched + 1
          /\ IF CapReached(max_results, fetched')
             THEN Return(results')
             ELSE UNCHANGED <<ret, pc>>
     ELSE UNCHANGED <<results, fetched, ret, pc>>
  /\ UNCHANGED <<argVars, scraper, raised, page, total_pages, response, data,
                 requests, sinkVars, endVars>>

\* total_pages as it would be if it were read from every response
MuseNextTotal_EveryPage(tp, field) == Some(ParsePageCount(field))

\* total_pages after the for loop: read from the response when not yet known
MuseNextTotal(tp, field) == IF tp = None THEN Some(ParsePageCount(field)) ELSE tp

\* the for loop is over: total_pages is settled, and the page advances
MuseAdvance ==
  /\ pc = "muse_items"
  /\ remaining = 0
  /\ total_pages' = MuseNextTotal(total_pages, data)
  /\ page' = page + 1
  /\ pc' = "muse_loop"
  /\ UNCHANGED <<argVars, scraper, raised, results, fetched, response, data, loopVars,
                 now, requests, ret, sinkVars, endVars>>

(***************************************************************************)
(* RemotiveScraper.search.                                                 *)
(***************************************************************************)
\* what search returns when the request fails
RemotiveFailure == <<>>

\* the request raises or answers with a status other than 200: return []
RemotiveRequestFails(resp) ==
  /\ pc = "search"
  /\ scraper = Some("RemotiveScraper")
  /\ requests' = Append(requests, RemotiveGet)
  /\ response' = Some(resp)
  /\ Return(RemotiveFailure)
  /\ UNCHANGED <<argVars, scraper, raised, results, museVars, loopVars, now,
                 sinkVars, endVars>>

\* the request answers 200 with n items
RemotiveRequestOk(n) ==
  /\ pc = "search"
  /\ scraper = Some("RemotiveScraper")
  /\ requests' = Append(requests, RemotiveGet)
  /\ response' = Some(Response(200))
  /\ remaining' = n
  /\ results' = <<>>
  /\ pc' = "remotive_items"
  /\ UNCHANGED <<argVars, scraper, raised, museVars, job, now, ret, sinkVars, endVars>>

\* one turn of the for loop
RemotiveItem(item, t) ==
  /\ pc = "remotive_items"
  /\ remaining > 0
  /\ t >= now
  /\ (~item.publication_date.ok \/ days = None) => t = now
  /\ now' = t
  /\ job' = Some(item)
  /\ remaining' = remaining - 1
  /\ IF RemotiveKeeps(item, location, days, t)
     THEN /\ results' = Append(results, RemotivePosting(item, IsoParseNaive(item.publication_date).value))
          /\ IF CapReached(max_results, Len(results'))
             THEN Return(results')
             ELSE UNCHANGED <<ret, pc>>
     ELSE UNCHANGED <<results, ret, pc>>
  /\ UNCHANGED <<argVars, scraper, raised, museVars, response, requests, sinkVars,
                 endVars>>

\* the for loop is over: return results
RemotiveReturn ==
  /\ pc = "remotive_items"
  /\ remaining = 0
  /\ Return(results)
  /\ UNCHANGED <<argVars, scraper, raised, results, museVars, response, loopVars,
                 now, requests, sinkVars, endVars>>

(***************************************************************************)
(* main, after search has returned: the sort and the output sink.          *)
(***************************************************************************)
\* jobs = list(search(...)); jobs.sort(...): the call of search is over, and
\* its locals with it
MainSort ==
  /\ pc = "returned"
  /\ jobs' = SortDesc(ret[1])
  /\ pc' = "output"
  /\ results' = <<>>
  /\ page' = 0
  /\ fetched' = 0
  /\ total_pages' = None
  /\ data' = Absent
  /\ remaining' = 0
  /\ job' = None
  /\ UNCHANGED <<argVars, scraper, raised, response, now, requests, ret, output,
                 files, stdout, endVars>>

\* args.output is not given (drawn where main first reads it): format_console
FormatConsole ==
  /\ pc = "output"
  /\ output' = None
  /\ stdout' = Append(stdout, [table |-> [i \in 1..Len(jobs) |-> ConsoleRow(jobs[i])]])
  /\ exit' = Some(0)
  /\ pc' = "exit"
  /\ UNCHANGED <<argVars, scraper, raised, results, museVars, response, loopVars,
                 now, requests, ret, jobs, files, stderr>>

\* write_output as it would be if it opened the file before looking at the
\* extension
WriteOutput_OpensFirst(path) ==
  /\ pc = "output"
  /\ output' = Some(path)
  /\ LET ext == OutputExt(path)
         opened == [kind |-> "written", format |-> "", rows |-> <<>>]
     IN  IF ext = T_json \/ ext = T_csv
         THEN /\ files' = [files EXCEPT ![path] =
                             [kind |-> "written",
                              format |-> IF ext = T_json THEN "json" ELSE "csv",
                              rows |-> [i \in 1..Len(jobs) |-> ToDict(jobs[i])]]]
              /\ stdout' = Append(stdout, [wrote |-> Len(jobs)])
              /\ exit' = Some(0)
              /\ UNCHANGED <<raised, stderr>>
         ELSE /\ files' = [files EXCEPT ![path] = opened]
              /\ raised' = Some(Error("ValueError", "Unsupported output format", ext, <<>>))
              /\ stderr' = Append(stderr, "Traceback")
              /\ exit' = Some(1)
              /\ UNCHANGED stdout
  /\ pc' = "exit"
  /\ UNCHANGED <<argVars, scraper, results, museVars, response, loopVars, now,
                 requests, ret, jobs>>

\* write_output(jobs, path); path is args.output, drawn where main first reads it
WriteOutput(path) ==
  /\ pc = "output"
  /\ output' = Some(path)
  /\ LET ext == OutputExt(path)
     IN  IF ext = T_json \/ ext = T_csv
         THEN /\ files' = [files EXCEPT ![path] =
                             [kind |-> "written",
                              format |-> IF ext = T_json THEN "json" ELSE "csv",
                              rows |-> [i \in 1..Len(jobs) |-> ToDict(jobs[i])]]]
              /\ stdout' = Append(stdout, [wrote |-> Len(jobs)])
              /\ exit' = Some(0)
              /\ UNCHANGED <<raised, stderr>>
         ELSE /\ raised' = Some(Error("ValueError", "Unsupported output format", ext, <<>>))
              /\ stderr' = Append(stderr, "Traceback")
              /\ exit' = Some(1)
              /\ UNCHANGED <<files, stdout>>
  /\ pc' = "exit"
  /\ UNCHANGED <<argVars, scraper, results, museVars, response, loopVars, now,
                 requests, ret, jobs>>

(***************************************************************************)
(* The specification.                                                      *)
(***************************************************************************)
\* the program by itself: the search on the cleaned responses is left out
Next ==
  \/ GetScraperCall /\ UNCHANGED clean
  \/ ParseArgsError /\ UNCHANGED clean
  \/ \E loc \in LocationArgs, d \in DaysArgs, m \in MaxResultsArgs :
       MainResolve(loc, d, m) /\ UNCHANGED clean
  \/ IndeedSearch /\ UNCHANGED clean
  \/ LinkedInSearch /\ UNCHANGED clean
  \/ MainExcept /\ UNCHANGED clean
  \/ MuseStart /\ UNCHANGED clean
  \/ MuseLoopExit /\ UNCHANGED clean
  \/ \E resp \in {TransportError} \cup {Response(c) : c \in FailureStatuses} :
       MuseRequestFails(resp) /\ UNCHANGED clean
  \/ \E field \in PageCountFields, n \in 0..PageSize :
       MuseRequestOk(field, n) /\ UNCHANGED clean
  \/ \E item \in MuseItems, t \in Clock : MuseItem(item, t) /\ UNCHANGED clean
  \/ MuseAdvance /\ UNCHANGED clean
  \/ \E resp \in {TransportError} \cup {Response(c) : c \in FailureStatuses} :
       RemotiveRequestFails(resp) /\ UNCHANGED clean
  \/ \E n \in 0..PageSize : RemotiveRequestOk(n) /\ UNCHANGED clean
  \/ \E item \in RemotiveItems, t \in Clock : RemotiveItem(item, t) /\ UNCHANGED clean
  \/ RemotiveReturn /\ UNCHANGED clean
  \/ MainSort /\ UNCHANGED clean
  \/ FormatConsole /\ UNCHANGED clean
  \/ \E path \in Paths : WriteOutput(path) /\ UNCHANGED clean

Spec == Init /\ [][Next]_vars

(***************************************************************************)
(* The program with the search on the cleaned responses run alongside, on  *)
(* a wall clock that stands still during the run: an item without a        *)
(* timestamp never reaches _within_days, the only reader of the clock.     *)
(***************************************************************************)
NextClean ==
  \/ GetScraperCall /\ UNCHANGED clean
  \/ ParseArgsError /\ UNCHANGED clean
  \/ \E loc \in LocationArgs, d \in DaysArgs, m \in MaxResultsArgs :
       MainResolve(loc, d, m) /\ UNCHANGED clean
  \/ IndeedSearch /\ UNCHANGED clean
  \/ LinkedInSearch /\ UNCHANGED clean
  \/ MainExcept /\ UNCHANGED clean
  \/ MuseStart /\ clean' = CleanStart
  \/ MuseLoopExit /\ clean' = CleanReturn(clean)
  \/ \E resp \in {TransportError} \cup {Response(c) : c \in FailureStatuses} :
       MuseRequestFails(resp) /\ clean' = CleanReturn(clean)
  \/ \E field \in PageCountFields, n \in 0..PageSize :
       /\ MuseRequestOk(field, n)
       /\ clean' = IF n = 0 THEN CleanReturn(clean) ELSE clean
  \/ \E item \in MuseItems :
       /\ MuseItem(item, now)
       /\ clean' = CleanSeen(CleanItem(clean, item,
                                       MuseKeeps(item, location, days, now),
                                       MusePosting(item, item.publication_date.wall),
                                       max_results),
                             item)
  \/ MuseAdvance /\ clean' = CleanPageEnd(clean)
  \/ \E resp \in {TransportError} \cup {Response(c) : c \in FailureStatuses} :
       RemotiveRequestFails(resp) /\ clean' = CleanReturn(CleanStart)
  \/ \E n \in 0..PageSize : RemotiveRequestOk(n) /\ clean' = CleanStart
  \/ \E item \in RemotiveItems :
       /\ RemotiveItem(item, now)
       /\ clean' = CleanItem(clean, item,
                             RemotiveKeeps(item, location, days, now),
                             RemotivePosting(item, item.publication_date.wall),
                             max_results)
  \/ RemotiveReturn /\ clean' = CleanReturn(clean)
  \/ MainSort /\ clean' = CleanStart
  \/ FormatConsole /\ UNCHANGED clean
  \/ \E path \in Paths : WriteOutput(path) /\ UNCHANGED clean

SpecClean == Init /\ [][NextClean]_vars

(***************************************************************************)
(* Vocabulary of the properties.                                           *)
(***************************************************************************)
InMuse == pc \in {"muse_loop", "muse_items"}
\* the for loop is about to visit an item
AtItem == pc \in {"muse_items", "remotive_items"} /\ remaining > 0
\* a request failed: a transport error, or a status that is no success
Failed(r) == r.raised \/ r.status_code \notin 200..299
\* text s contains text sub, letter case ignored
ContainsCI(s, sub) == Contains(Lower(s), Lower(sub))
\* the age of a timestamp at clock reading t, in clock units
Age(t, date) == t - date
\* the number of times x occurs in sequence s
Count(x, s) == Cardinality({i \in 1..Len(s) : s[i] = x})
Range(s) == {s[i] : i \in 1..Len(s)}
IsPermutation(a, b) ==
  /\ Len(a) = Len(b)
  /\ \A x \in Range(a) \cup Range(b) : Count(x, a) = Count(x, b)
Max(a, b) == IF a >= b THEN a ELSE b
\* the item passes the date filters at clock reading t
DatePasses(item, t) ==
  /\ item.publication_date.ok
  /\ days # None => Age(t, item.publication_date.wall) < days[1] * UnitsPerDay

MuseExpected(item, loc) ==
  \E i \in 1..Len(item.locations) :
    \/ ContainsCI(item.locations[i], loc)
    \/ ContainsCI(item.locations[i], T_remote)
    \/ ContainsCI(item.locations[i], T_flexible)

\* the message of the stub adapter in use
StubMessage ==
  IF scraper = Some("IndeedScraper") THEN IndeedMessage ELSE LinkedInMessage

\* the adapter each valid identifier stands for
RegisteredAdapter(name) ==
  CASE name = T_themuse -> Some("TheMuseScraper")
    [] name = T_indeed -> Some("IndeedScraper")
    [] name = T_linkedin -> Some("LinkedInScraper")
    [] name = T_remotive -> Some("RemotiveScraper")
    [] OTHER -> None

\* the page count the first response states
StatedCount(field) ==
  CASE field = Absent -> 0
    [] field = NaN -> 0
    [] OTHER -> field.value

\* what is left to do, in steps: the pages, then the items of the page
MuseMeasure ==
  IF ~InMuse THEN 0
  ELSE (MaxPages + 2 - page) * (PageSize + 3) + (IF pc = "muse_loop" THEN PageSize + 2 ELSE remaining + 1)

(***************************************************************************)
(* C1.  The sequence search returns is no longer than max_results, and it  *)
(* is shorter only when the source is used up: every item of the responses *)
(* received was visited, so fewer than max_results of them qualified.      *)
(***************************************************************************)
C1_MaxResults ==
  (pc = "returned" /\ max_results # None) =>
    /\ Len(ret[1]) <= max_results[1]
    /\ Len(ret[1]) < max_results[1] => remaining = 0

(***************************************************************************)
(* C2.  With days = D > 0, a posting is kept only if at the reading of the *)
(* clock taken for it it is less than D days old: a posting aged D days or *)
(* more is dropped, and one aged less than D days is dropped only by the   *)
(* location filter.                                                        *)
(***************************************************************************)
C2_DaysWindow ==
  [][(AtItem /\ days # None /\ job'[1].publication_date.ok) =>
       LET date == job'[1].publication_date.wall
           kept == Len(results') = Len(results) + 1
       IN  /\ kept => /\ results'[Len(results')].publication_date = date
                      /\ Age(now', date) < days[1] * UnitsPerDay
           /\ Age(now', date) >= days[1] * UnitsPerDay => ~kept
           /\ (Age(now', date) < days[1] * UnitsPerDay /\ ~Truthy(location)) => kept
     ]_vars

\* a posting one tick short of a day old was kept; the same timestamp read one
\* tick later is exactly a day old and was dropped
C2_Witness ==
  /\ pc = "muse_items"
  /\ days = Some(1)
  /\ location = None
  /\ now = Now0 + 1
  /\ Len(results) = 1
  /\ results[1].publication_date = EdgeDate
  /\ job # None
  /\ job[1].publication_date = Stamp(EdgeDate, 0)

(***************************************************************************)
(* C3.  As claimed: after a failed request search returns an empty         *)
(* sequence and raises nothing.                                            *)
(***************************************************************************)
C3_FailureReturnsEmpty ==
  (pc = "returned" /\ response # None /\ Failed(response[1])) =>
    (raised = None /\ ret = Some(<<>>))

(***************************************************************************)
(* C3, amended.  A failed request raises nothing and ends search, which    *)
(* returns the postings collected before that request: none when the       *)
(* request is the first one (always so for Remotive).                      *)
(***************************************************************************)
C3_FailureReturnsCollected ==
  [][(requests' # requests /\ Failed(response'[1])) =>
       /\ raised' = None
       /\ pc' = "returned"
       /\ ret' = Some(results)
       /\ Len(requests) = 0 => ret' = Some(<<>>)
     ]_vars

\* the second page failed after the first page gave a posting
C3_Witness ==
  /\ pc = "returned"
  /\ response = Some(TransportError)
  /\ Len(requests) = 2
  /\ ret # None
  /\ Len(ret[1]) > 0

(***************************************************************************)
(* C4.  Once max_results postings have been collected TheMuseScraper       *)
(* issues no further request and returns at once, also when the cap is     *)
(* met before the first request.                                           *)
(***************************************************************************)
C4_EarlyTermination ==
  [][(InMuse /\ CapReached(max_results, fetched)) =>
       (requests' = requests /\ pc' = "returned")]_vars

(***************************************************************************)
(* C5.  As claimed: with a location filter L, The Muse keeps an item iff a *)
(* name of its locations contains L or a remote keyword (case ignored),    *)
(* and Remotive keeps an item iff its candidate_required_location contains *)
(* L (case ignored).  Both for items that pass the date filters.           *)
(***************************************************************************)
C5_LocationFilter ==
  [][(AtItem /\ Truthy(location) /\ DatePasses(job'[1], now')) =>
       LET kept == Len(results') = Len(results) + 1
       IN  IF pc = "muse_items"
           THEN kept <=> MuseExpected(job'[1], location[1])
           ELSE kept <=> ContainsCI(job'[1].candidate_required_location, location[1])
     ]_vars

(***************************************************************************)
(* C5, amended.  The same, but Remotive matches L against the              *)
(* candidate_required_location with leading and trailing whitespace        *)
(* removed.                                                                *)
(***************************************************************************)
C5_LocationFilterStripped ==
  [][(AtItem /\ Truthy(location) /\ DatePasses(job'[1], now')) =>
       LET kept == Len(results') = Len(results) + 1
       IN  IF pc = "muse_items"
           THEN kept <=> MuseExpected(job'[1], location[1])
           ELSE kept <=> ContainsCI(Strip(job'[1].candidate_required_location),
                                    location[1])
     ]_vars

\* a posting tagged only "Remote" was kept under the filter "Bos"
C5_Witness ==
  /\ pc = "muse_items"
  /\ location = Some(T_Bos)
  /\ job # None
  /\ job[1].locations = <<T_Remote>>
  /\ Len(results) = 1
  /\ results[1].location = T_Remote

(***************************************************************************)
(* C6.  A run of main on a stub adapter (indeed, linkedin): search raises  *)
(* NotImplementedError, no HTTP request is issued, nothing is printed to   *)
(* the output and no file is written, and the run ends with the adapter's  *)
(* message on the error stream and exit status 1.                          *)
(***************************************************************************)
C6_Unsupported ==
  (pc # "resolved" /\ scraper \in {Some("IndeedScraper"), Some("LinkedInScraper")}) =>
    /\ pc \in {"search", "except", "exit"}
    /\ requests = <<>>
    /\ ret = None
    /\ stdout = <<>>
    /\ files = Files0
    /\ pc # "search" => /\ raised # None
                        /\ raised[1].type = "NotImplementedError"
                        /\ raised[1].message = StubMessage
    /\ pc = "exit" => (exit = Some(1) /\ stderr = <<StubMessage>>)
    /\ pc # "exit" => (exit = None /\ stderr = <<>>)

C6_Witness ==
  /\ pc = "exit"
  /\ scraper = Some("LinkedInScraper")
  /\ exit = Some(1)
  /\ stderr = <<LinkedInMessage>>

(***************************************************************************)
(* C7.  write_output on a path whose extension, lower-cased, is neither    *)
(* .json nor .csv raises ValueError and leaves every file as it was:       *)
(* nothing is created and nothing truncated.                               *)
(***************************************************************************)
C7_UnsupportedFormat ==
  [][(pc = "output" /\ output' # None
        /\ Lower(SplitExt(output'[1])) \notin {T_json, T_csv}) =>
       /\ raised' # None
       /\ raised'[1].type = "ValueError"
       /\ files' = files
       /\ stdout' = stdout
       /\ exit' = Some(1)
     ]_vars

\* "o.txt" held content before the run and still holds it after the failure
C7_Witness ==
  /\ pc = "exit"
  /\ output = Some(P_out_txt)
  /\ raised # None
  /\ raised[1].type = "ValueError"
  /\ files[P_out_txt] = OldContent

(***************************************************************************)
(* C8.  The list main hands to the output sink is a permutation of the     *)
(* list search returned, ordered by publication_date descending.           *)
(***************************************************************************)
C8_SortedDescending ==
  (pc \in {"output", "exit"} /\ ret # None) =>
    /\ IsPermutation(jobs, ret[1])
    /\ \A i \in 1..(Len(jobs) - 1) :
         jobs[i].publication_date >= jobs[i + 1].publication_date

\* three postings returned in the order old, new, middle come out new, middle, old
C8_Witness ==
  /\ pc = "output"
  /\ ret # None
  /\ Len(ret[1]) = 3
  /\ ret[1][1].publication_date = OldDate
  /\ ret[1][2].publication_date = Now0
  /\ ret[1][3].publication_date = EdgeDate
  /\ jobs = <<ret[1][2], ret[1][3], ret[1][1]>>

(***************************************************************************)
(* C9.  get_scraper on a name that, lower-cased, is not a registered       *)
(* identifier raises KeyError listing the valid identifiers, constructs no *)
(* adapter and no request is issued; a registered identifier resolves to   *)
(* its adapter whatever its letter case.  A run of main on an unknown      *)
(* --site ends before any adapter is constructed or any request issued.    *)
(***************************************************************************)
C9_UnknownSite ==
  /\ pc = "resolved" =>
       IF RegisteredAdapter(Lower(argv_site)) # None
       THEN raised = None /\ scraper = RegisteredAdapter(Lower(argv_site))
       ELSE /\ raised # None
            /\ raised[1].type = "KeyError"
            /\ raised[1].unknown = argv_site
            /\ raised[1].available = <<T_themuse, T_indeed, T_linkedin, T_remotive>>
            /\ scraper = None
            /\ requests = <<>>
  /\ RegisteredAdapter(Lower(argv_site)) = None =>
       (scraper = None /\ requests = <<>> /\ ret = None)

C9_Witness ==
  /\ pc = "resolved"
  /\ argv_site = T_glassdoor
  /\ raised # None
  /\ raised[1].type = "KeyError"
  /\ scraper = None

(***************************************************************************)
(* C10.  TheMuseScraper requests pages 1, 2, 3, ... in order, each once;   *)
(* the page count is read from the first response only; search stops once  *)
(* that many pages are consumed, or at once on a page without items; so at *)
(* most max(1, page_count) requests are issued, and exactly one when the   *)
(* count is absent, zero or no number.  Every step of search moves it      *)
(* forward, so it ends.                                                    *)
(***************************************************************************)
C10_Pagination ==
  /\ [](  (scraper = Some("TheMuseScraper") /\ pc # "resolved") =>
            /\ \A i \in 1..Len(requests) : requests[i] = MuseGet(i)
            /\ (InMuse \/ pc = "returned") =>
                 /\ total_pages = None => Len(requests) <= 1
                 /\ total_pages # None => Len(requests) <= Max(1, total_pages[1])
                 /\ (pc = "returned" /\ total_pages = Some(0)) => Len(requests) = 1
            /\ InMuse => (ENABLED Next)  )
  /\ [][ /\ (InMuse /\ total_pages # None /\ pc' # "output") =>
              total_pages' = total_pages
         /\ (pc = "muse_items" /\ total_pages = None /\ total_pages' # None) =>
              (Len(requests) = 1 /\ total_pages' = Some(StatedCount(data)))
         /\ (InMuse /\ requests' # requests /\ response' = Some(Response(200))
               /\ remaining' = 0) => pc' = "returned"
         /\ (pc = "muse_loop" /\ total_pages # None /\ page > total_pages[1]) =>
              (requests' = requests /\ pc' = "returned")
         /\ InMuse => MuseMeasure' < MuseMeasure
       ]_vars

\* both pages of a two-page result were consumed, and the loop ended on the count
C10_Witness ==
  /\ pc = "returned"
  /\ total_pages = Some(2)
  /\ page = 3
  /\ Len(requests) = 2

(***************************************************************************)
(* C11.  As claimed: an item whose publication timestamp is missing or     *)
(* unparseable is skipped without raising, and what search returns is what *)
(* it would return for the same responses with those items taken out.      *)
(* Taken out of a page of The Muse that holds nothing else, they leave a   *)
(* page without items, at which that search ends.                          *)
(***************************************************************************)
C11_MalformedRemoved ==
  pc = "returned" =>
    /\ raised = None
    /\ clean.returned
    /\ ret[1] = IF clean.emptied # None THEN clean.emptied[1] ELSE clean.results

(***************************************************************************)
(* C11, amended.  The same, except that a page of The Muse holding only    *)
(* such items still counts as a page with items: the search goes on to the *)
(* next page.  All along, search has raised nothing and its list is the    *)
(* list of the search on the responses without those items.                *)
(***************************************************************************)
C11_MalformedSkipped ==
  /\ (pc \in {"muse_loop", "muse_items", "remotive_items"}) =>
       (raised = None /\ ~clean.returned /\ results = clean.results)
  /\ pc = "returned" =>
       (raised = None /\ clean.returned /\ ret[1] = clean.results)

\* a page of The Muse held only items without a timestamp, and a later page
\* gave a posting
C11_Witness ==
  /\ pc = "returned"
  /\ scraper = Some("TheMuseScraper")
  /\ job # None /\ job[1].publication_date.ok
  /\ clean.emptied # None
  /\ Len(ret[1]) > Len(clean.emptied[1])

====
